---------------------------- MODULE Spec2Model ----------------------------
(***************************************************************************)
(* Model of the SEO audit engine (src/audit.py): class Auditor.            *)
(*                                                                         *)
(* Strings are modelled as sequences of tokens.  A file name is a segment  *)
(* (a sequence of tokens such as <<"post", ".html">>), a file system path  *)
(* is a sequence of segments counted from "/", and an href is a sequence   *)
(* of tokens in which "/" separates segments.  startswith/endswith/`in`    *)
(* become prefix, suffix and token-membership tests on those sequences.    *)
(***************************************************************************)
EXTENDS Integers, Sequences, FiniteSets, TLC

VARIABLES
    fsFiles,               \* the regular files on disk (set of paths)
    fsDirs,                \* the directories on disk (set of paths)
    fsWalk,                \* the files below the root in the order os.walk yields them
    base_url,              \* AutoConfig.base_url (token sequence, or None)
    files_to_audit,        \* Auditor.files_to_audit (list of paths)
    internal_links_graph,  \* ordered dict target -> [sources], as a list of records
    external_links,        \* Auditor.external_links (set of hrefs)
    score,                 \* Auditor.score
    issues,                \* Auditor.issues (list of (type, message))
    processed_files_count, \* Auditor.processed_files_count
    dead_links,            \* Auditor.dead_links (list of hrefs)
    orphan_pages,          \* Auditor.orphan_pages (list of relative paths)
    top_pages,             \* the "Top 10 Internal Pages" lines analyze_structure prints
    futures,               \* future_to_url: url -> state of its future
    pc,                    \* position of run()
    deductions,            \* history: every update of score made while findings are emitted
    soup,                  \* check_file: the parsed content of the page read last
    rsrc, rhref, rres,     \* resolve_local_path: arguments and returned tuple
    twin                   \* two runs of the audit side by side (empty when one run is modelled)

fsVars  == <<fsFiles, fsDirs, fsWalk, base_url>>
resVars == <<rsrc, rhref, rres>>
runVars == <<files_to_audit, internal_links_graph, external_links, score, issues,
             processed_files_count, dead_links, orphan_pages, top_pages, futures,
             deductions, soup>>

vars == <<fsVars, resVars, runVars, pc, twin>>

None == "None"

-----------------------------------------------------------------------------
(* Sequences as strings *)

Range(s) == {s[i] : i \in 1..Len(s)}

\* str.startswith(prefix)
StartsWith(s, prefix) ==
    /\ Len(prefix) <= Len(s)
    /\ SubSeq(s, 1, Len(prefix)) = prefix

\* str.endswith(suffix)
EndsWith(s, suffix) ==
    /\ Len(suffix) <= Len(s)
    /\ SubSeq(s, Len(s) - Len(suffix) + 1, Len(s)) = suffix

RECURSIVE SumSeq(_)
SumSeq(s) == IF s = <<>> THEN 0 ELSE Head(s) + SumSeq(Tail(s))

Max(a, b) == IF a >= b THEN a ELSE b

-----------------------------------------------------------------------------
(* Tokens of hrefs and of file names *)

QueryTokens == {"?q"}
FragTokens  == {"#top"}

\* s.split(sep)[0]: the part of s before the first token that starts with sep
RECURSIVE BeforeFirst(_, _)
BeforeFirst(s, seps) ==
    IF s = <<>> \/ Head(s) \in seps THEN <<>>
    ELSE <<Head(s)>> \o BeforeFirst(Tail(s), seps)

\* s.lstrip('/')
RECURSIVE LStripSlash(_)
LStripSlash(s) ==
    IF s # <<>> /\ Head(s) = "/" THEN LStripSlash(Tail(s)) ELSE s

\* the segments of a path string: the token runs between "/" tokens
RECURSIVE SplitFrom(_, _, _)
SplitFrom(toks, cur, acc) ==
    IF toks = <<>>
    THEN (IF cur = <<>> THEN acc ELSE Append(acc, cur))
    ELSE IF Head(toks) = "/"
         THEN SplitFrom(Tail(toks), <<>>, IF cur = <<>> THEN acc ELSE Append(acc, cur))
         ELSE SplitFrom(Tail(toks), Append(cur, Head(toks)), acc)

Segments(toks) == SplitFrom(toks, <<>>, <<>>)

\* os.path.normpath of an absolute path given as its segments
RECURSIVE NormFrom(_, _)
NormFrom(segs, acc) ==
    IF segs = <<>> THEN acc
    ELSE IF Head(segs) = <<".">> THEN NormFrom(Tail(segs), acc)
    ELSE IF Head(segs) = <<"..">>
         THEN NormFrom(Tail(segs),
                       IF acc = <<>> THEN acc ELSE SubSeq(acc, 1, Len(acc) - 1))
    ELSE NormFrom(Tail(segs), Append(acc, Head(segs)))

normpath(segs) == NormFrom(segs, <<>>)

\* os.path.dirname / os.path.basename of a normalized absolute path
dirname(p)  == IF p = <<>> THEN <<>> ELSE SubSeq(p, 1, Len(p) - 1)
basename(p) == IF p = <<>> THEN <<>> ELSE p[Len(p)]

\* path + '.html'
PlusHtml(p) ==
    IF p = <<>> THEN << <<".html">> >>
    ELSE [p EXCEPT ![Len(p)] = Append(@, ".html")]

IndexName == <<"index", ".html">>

-----------------------------------------------------------------------------
(* The file system and the site root *)

root_dir == << <<"site">> >>

isfile(p) == p \in fsFiles

\* no path taken for a directory
isdir_Never(p) == FALSE

isdir(p)  == p \in fsDirs

\* every proper prefix of a path: the directories a file needs
Ancestors(p) == {SubSeq(p, 1, n) : n \in 0..(Len(p) - 1)}

\* os.path.relpath(f, root_dir) for f below root_dir
relpath(f) ==
    IF StartsWith(f, root_dir) THEN SubSeq(f, Len(root_dir) + 1, Len(f)) ELSE f

-----------------------------------------------------------------------------
(* Auditor.resolve_local_path *)

Res(p, e) == [path |-> p, exists |-> e]

\* the tiers tried in another order: the clean-URL file before the directory index
resolve_local_path_CleanFirst(current_file_path, link_href) ==
    LET url_path == BeforeFirst(BeforeFirst(link_href, QueryTokens), FragTokens)
        potential_path ==
            normpath(IF url_path # <<>> /\ Head(url_path) = "/"
                     THEN root_dir \o Segments(LStripSlash(url_path))
                     ELSE dirname(current_file_path) \o Segments(url_path))
        index_path == Append(potential_path, IndexName)
        html_path  == PlusHtml(potential_path)
    IN  IF isfile(potential_path) THEN Res(potential_path, TRUE)
        ELSE IF isfile(html_path) THEN Res(html_path, TRUE)
        ELSE IF isdir(potential_path) /\ isfile(index_path) THEN Res(index_path, TRUE)
        ELSE IF isfile(index_path) THEN Res(index_path, TRUE)
        ELSE Res(potential_path, FALSE)

resolve_local_path(current_file_path, link_href) ==
    LET url_path == BeforeFirst(BeforeFirst(link_href, QueryTokens), FragTokens)
        potential_path ==
            normpath(IF url_path # <<>> /\ Head(url_path) = "/"
                     THEN root_dir \o Segments(LStripSlash(url_path))
                     ELSE dirname(current_file_path) \o Segments(url_path))
        index_path == Append(potential_path, IndexName)
        html_path  == PlusHtml(potential_path)
    IN  IF isfile(potential_path) THEN Res(potential_path, TRUE)
        ELSE IF isdir(potential_path) /\ isfile(index_path) THEN Res(index_path, TRUE)
        ELSE IF isfile(html_path) THEN Res(html_path, TRUE)
        ELSE IF isfile(index_path) THEN Res(index_path, TRUE)
        ELSE Res(potential_path, FALSE)


-----------------------------------------------------------------------------
(* AutoConfig: the ignore rules *)

ignore_paths            == {".git", "node_modules", "__pycache__", "MasterTool"}
ignore_urls_prefixes    == {<<"/", "go", "/">>, <<"javascript:">>, <<"mailto:">>}
ignore_urls_substrings  == {"cdn-cgi"}
ignore_files            == {<<"404", ".html">>}
ignore_files_substrings == {"google"}

\* Auditor.is_ignored_path: a substring test on the whole directory path
is_ignored_path(path) ==
    \E i \in 1..Len(path) : Range(path[i]) \cap ignore_paths # {}

\* Auditor.is_ignored_file
is_ignored_file(filename) ==
    \/ filename \in ignore_files
    \/ Range(filename) \cap ignore_files_substrings # {}

\* Auditor.is_ignored_url ('#' is the fourth prefix: any fragment token)
is_ignored_url(url) ==
    \/ \E prefix \in ignore_urls_prefixes : StartsWith(url, prefix)
    \/ (url # <<>> /\ Head(url) \in FragTokens)
    \/ Range(url) \cap ignore_urls_substrings # {}

\* the path of a file printed as a string: its segments joined by "/"
RECURSIVE PathStr(_)
PathStr(p) ==
    IF p = <<>> THEN <<>>
    ELSE IF Len(p) = 1 THEN Head(p)
    ELSE Head(p) \o <<"/">> \o PathStr(Tail(p))

-----------------------------------------------------------------------------
(* Auditor.log and the score *)

\* the fields of the Auditor that logging and page inspection update
Ctx(sc, is, de, gr, dl, ex) ==
    [score |-> sc, issues |-> is, deductions |-> de, graph |-> gr, dead |-> dl, ext |-> ex]

Issue(type, message) == [type |-> type, message |-> message]

\* 'Orphan' in message
ContainsOrphan(message) == "Orphan" \in Range(message)

\* one update of the score: the amount the statement names, the score before and
\* after it, and the finding (index in issues) it belongs to
Entry(amount, before, after, finding) ==
    [amount |-> amount, before |-> before, after |-> after, finding |-> finding]

\* the finding is recorded and the score set to `after`
Logged(c, type, message, amount, after) ==
    [c EXCEPT !.score = after,
              !.deductions = Append(@, Entry(amount, c.score, after, Len(c.issues) + 1)),
              !.issues = Append(@, Issue(type, message))]

\* the weight of a WARN: 5 if 'Orphan' in message else 2
WarnWeight(message) == IF ContainsOrphan(message) THEN 5 ELSE 2

log(c, type, message) ==
    IF type = "ERROR" THEN Logged(c, type, message, 10, c.score - 10)
    ELSE IF type = "WARN"
    THEN Logged(c, type, message, WarnWeight(message), Max(0, c.score - WarnWeight(message)))
    ELSE c

\* self.score -= 5 at a call site, right after the ERROR it belongs to
Deduct5(c) ==
    [c EXCEPT !.score = @ - 5,
              !.deductions = Append(@, Entry(5, c.score, c.score - 5, Len(c.issues)))]

-----------------------------------------------------------------------------
(* The link graph: an insertion-ordered dict target -> list of sources *)

Keys(graph) == {graph[i].target : i \in 1..Len(graph)}

\* self.internal_links_graph[target].append(source)
AddEdge(graph, target, source) ==
    IF target \in Keys(graph)
    THEN [i \in 1..Len(graph) |->
            IF graph[i].target = target
            THEN [graph[i] EXCEPT !.sources = Append(@, source)]
            ELSE graph[i]]
    ELSE Append(graph, [target |-> target, sources |-> <<source>>])

Sources(graph, target) ==
    IF target \in Keys(graph)
    THEN (CHOOSE e \in Range(graph) : e.target = target).sources
    ELSE <<>>

-----------------------------------------------------------------------------
(* Auditor.check_file *)

Protections == <<"nofollow", "noopener", "noreferrer">>

\* the missing protection values, in the order the code collects them
RECURSIVE MissingFrom(_, _)
MissingFrom(names, rel) ==
    IF names = <<>> THEN <<>>
    ELSE (IF Head(names) \in rel THEN <<>> ELSE <<Head(names)>>) \o MissingFrom(Tail(names), rel)

\* ', '.join(missing)
RECURSIVE JoinComma(_)
JoinComma(xs) ==
    IF xs = <<>> THEN <<>>
    ELSE IF Len(xs) = 1 THEN xs
    ELSE <<Head(xs), ", ">> \o JoinComma(Tail(xs))

MsgMissingH1(rel)      == PathStr(rel) \o <<": Missing <h1> tag (-5 pts)">>
MsgMultipleH1(rel)     == PathStr(rel) \o <<": Multiple <h1> tags found (-2 pts)">>
MsgMissingSchema(rel)  == PathStr(rel) \o <<": Missing Schema Markup (-2 pts)">>
MsgAbsInternal(rel, h) == PathStr(rel) \o <<": Absolute internal link found: ">> \o h
                              \o <<" -> Use path instead (e.g. /blog)">>
MsgDeadAbs(rel, h)     == PathStr(rel) \o <<": Dead Link (Internal Absolute): ">> \o h
MsgProtection(rel, h, missing) ==
    PathStr(rel) \o <<": External link ">> \o h \o <<" missing protection: ">>
        \o JoinComma(missing) \o <<" -> Risk of weight loss">>
MsgRelative(rel, h)    == PathStr(rel) \o <<": Relative path used: ">> \o h
                              \o <<" -> Should be absolute (e.g. /blog/post)">>
MsgHtmlExt(rel, h)     == PathStr(rel) \o <<": .html extension used: ">> \o h
                              \o <<" -> Should be Clean URL">>
MsgDead(rel, h)        == PathStr(rel) \o <<": Dead Link: ">> \o h

\* the dead link logged but not recorded in the dead-link list
LinkOrDead_NoRecord(c, file_path, target_href, href, deadmsg) ==
    LET r == resolve_local_path(file_path, target_href)
    IN  IF r.exists
        THEN [c EXCEPT !.graph = AddEdge(@, r.path, file_path)]
        ELSE log(c, "ERROR", deadmsg)

\* the Dead Link Check of an internal href, or of the path part of an absolute one
LinkOrDead(c, file_path, target_href, href, deadmsg) ==
    LET r == resolve_local_path(file_path, target_href)
    IN  IF r.exists
        THEN [c EXCEPT !.graph = AddEdge(@, r.path, file_path)]
        ELSE [log(c, "ERROR", deadmsg) EXCEPT !.dead = Append(@, href)]

\* the base URL left in front of the path
path_part_KeepBase(href) == <<"/">> \o href

\* path_part = href.replace(base_url, '', 1), with a leading '/' if it has none
path_part(href) ==
    LET rest == SubSeq(href, Len(base_url) + 1, Len(href))
    IN  IF StartsWith(rest, <<"/">>) THEN rest ELSE <<"/">> \o rest

\* one iteration of the loop over soup.find_all('a', href=True)
CheckAnchor(c, file_path, a) ==
    LET rel  == relpath(file_path)
        href == a.href
    IN  IF href = <<>> \/ is_ignored_url(href) THEN c
        ELSE IF StartsWith(href, <<"http://">>) \/ StartsWith(href, <<"https://">>)
        THEN IF base_url # None /\ StartsWith(href, base_url)
             THEN LET c1 == log(c, "WARN", MsgAbsInternal(rel, href))
                  IN  LinkOrDead(c1, file_path, path_part(href), href, MsgDeadAbs(rel, href))
             ELSE LET c1 == [c EXCEPT !.ext = @ \cup {href}]
                      missing == MissingFrom(Protections, a.rel)
                  IN  IF missing # <<>>
                      THEN log(c1, "WARN", MsgProtection(rel, href, missing))
                      ELSE c1
        ELSE LET c1 == IF ~StartsWith(href, <<"/">>)
                       THEN log(c, "WARN", MsgRelative(rel, href)) ELSE c
                 c2 == IF EndsWith(href, <<".html">>)
                       THEN log(c1, "WARN", MsgHtmlExt(rel, href)) ELSE c1
             IN  LinkOrDead(c2, file_path, href, href, MsgDead(rel, href))

RECURSIVE CheckAnchors(_, _, _)
CheckAnchors(c, file_path, anchors) ==
    IF anchors = <<>> THEN c
    ELSE CheckAnchors(CheckAnchor(c, file_path, Head(anchors)), file_path, Tail(anchors))

\* a page whose read or parse raises, and a parsed page
Unreadable == [readable |-> FALSE]

Page(h1, schema, anchors) ==
    [readable |-> TRUE, h1 |-> h1, schema |-> schema, anchors |-> anchors]

\* the failure of a page recorded as an ERROR finding
check_file_LogsFailure(c, file_path, content) ==
    LET rel == relpath(file_path)
    IN  IF ~content.readable
        THEN log(c, "ERROR", <<"Error processing ">> \o PathStr(rel))
        ELSE LET c1 == IF content.h1 = 0
                       THEN Deduct5(log(c, "ERROR", MsgMissingH1(rel)))
                       ELSE IF content.h1 > 1
                       THEN log(c, "WARN", MsgMultipleH1(rel))
                       ELSE c
                 c2 == IF ~content.schema
                       THEN log(c1, "WARN", MsgMissingSchema(rel))
                       ELSE c1
             IN  CheckAnchors(c2, file_path, content.anchors)

\* check_file on a page whose parsed content is `content`; a page that cannot be
\* read or parsed raises before any check and the except clause only prints
check_file(c, file_path, content) ==
    LET rel == relpath(file_path)
    IN  IF ~content.readable THEN c
        ELSE LET c1 == IF content.h1 = 0
                       THEN Deduct5(log(c, "ERROR", MsgMissingH1(rel)))
                       ELSE IF content.h1 > 1
                       THEN log(c, "WARN", MsgMultipleH1(rel))
                       ELSE c
                 c2 == IF ~content.schema
                       THEN log(c1, "WARN", MsgMissingSchema(rel))
                       ELSE c1
             IN  CheckAnchors(c2, file_path, content.anchors)

-----------------------------------------------------------------------------
(* The state after Auditor.__init__ *)

SiteIndex == Append(root_dir, IndexName)

\* AutoConfig._load_config: the base URL found in the root page, if any
BaseUrl == <<"https://", "site.example">>

\* a file system is well formed when every file lies in directories
WellFormedFS(files, dirs) ==
    /\ files \cap dirs = {}
    /\ root_dir \in dirs
    /\ \A f \in files \cup dirs : Ancestors(f) \subseteq dirs

\* the executor and its futures: the work queue, the URLs whose request is in
\* flight, the finished futures as_completed has not yielded yet, those it has
\* yielded, and every request sent so far
Futures(q, r, d, y, s) == [queue |-> q, running |-> r, done |-> d, yielded |-> y, sent |-> s]

NoFutures == Futures(<<>>, {}, {}, {}, <<>>)

Constructed ==
    /\ files_to_audit = <<>>
    /\ internal_links_graph = <<>>
    /\ external_links = {}
    /\ score = 100
    /\ issues = <<>>
    /\ processed_files_count = 0
    /\ dead_links = <<>>
    /\ orphan_pages = <<>>
    /\ top_pages = <<>>
    /\ futures = NoFutures
    /\ deductions = <<>>
    /\ soup = None

-----------------------------------------------------------------------------
(* resolve_local_path applied to bounded inputs *)

MaxHrefLen == 3

HrefTokens == {"/", "a", "..", ".html", "index", "?q", "#top"}

RECURSIVE SeqsUpTo(_, _)
SeqsUpTo(S, n) ==
    IF n = 0 THEN {<<>>}
    ELSE LET shorter == SeqsUpTo(S, n - 1)
         IN  shorter \cup {Append(s, t) : s \in {x \in shorter : Len(x) = n - 1}, t \in S}

ResolveHrefs == SeqsUpTo(HrefTokens, MaxHrefLen)

ResolveFileUniverse ==
    { SiteIndex,
      Append(root_dir, <<"a">>),
      Append(root_dir, <<"a", ".html">>),
      root_dir \o << <<"a">>, IndexName >>,
      << <<"a">> >> }

ResolveDirUniverse == { Append(root_dir, <<"a">>) }

IsPageName(seg) == EndsWith(seg, <<".html">>)

InitResolve ==
    /\ fsFiles \in SUBSET ResolveFileUniverse
    /\ \E extra \in SUBSET ResolveDirUniverse :
          fsDirs = {root_dir} \cup extra \cup UNION {Ancestors(f) : f \in fsFiles \cup {root_dir}}
    /\ WellFormedFS(fsFiles, fsDirs)
    /\ fsWalk = <<>>
    /\ rsrc \in {f \in fsFiles : IsPageName(basename(f)) /\ StartsWith(f, root_dir)}
    /\ rhref \in ResolveHrefs
    /\ rres = None
    /\ base_url = None
    /\ pc = "resolve"
    /\ twin = <<>>
    /\ Constructed

ResolveCall ==
    /\ pc = "resolve"
    /\ rres' = resolve_local_path(rsrc, rhref)
    /\ pc' = "resolved"
    /\ UNCHANGED <<fsVars, runVars, rsrc, rhref, twin>>

NextResolve == ResolveCall

SpecResolve == InitResolve /\ [][NextResolve]_vars

-----------------------------------------------------------------------------
(* C9 *)

\* the path the href names: query and fragment stripped, anchored, normalized
AnchoredPath(p, h) ==
    LET u == BeforeFirst(BeforeFirst(h, QueryTokens), FragTokens)
    IN  normpath(IF StartsWith(u, <<"/">>)
                 THEN root_dir \o Segments(LStripSlash(u))
                 ELSE dirname(p) \o Segments(u))

\* the four tiers, in the order of the claim: candidate file and whether it matches
Tiers(P) ==
    << [file |-> P,                    hit |-> P \in fsFiles],
       [file |-> Append(P, IndexName), hit |-> P \in fsDirs /\ Append(P, IndexName) \in fsFiles],
       [file |-> PlusHtml(P),          hit |-> PlusHtml(P) \in fsFiles],
       [file |-> Append(P, IndexName), hit |-> Append(P, IndexName) \in fsFiles] >>

FirstHit(t) == CHOOSE i \in 1..Len(t) : t[i].hit /\ \A j \in 1..(i - 1) : ~t[j].hit

\* C9: resolve_local_path returns the file of the first matching tier (exact
\* file, index.html of an existing directory, path + '.html', path/index.html)
\* with exists = true whenever any tier matches, and otherwise the normalized
\* path with exists = false.
C9_ResolveFirstTier ==
    pc = "resolved" =>
        LET t == Tiers(AnchoredPath(rsrc, rhref))
        IN  IF \E i \in 1..Len(t) : t[i].hit
            THEN rres = Res(t[FirstHit(t)].file, TRUE)
            ELSE rres = Res(AnchoredPath(rsrc, rhref), FALSE)

\* a root-relative clean URL that names both a directory with an index page and
\* a '.html' file has been resolved: the second tier decided
C9_Witness ==
    /\ pc = "resolved"
    /\ rhref = <<"/", "a">>
    /\ Append(root_dir, <<"a", ".html">>) \in fsFiles
    /\ rres = Res(root_dir \o << <<"a">>, IndexName >>, TRUE)

-----------------------------------------------------------------------------
(* The audited sites: the inputs of a run *)

MaxPages   == 2
LargePages == 11

RECURSIVE Perms(_)
Perms(S) ==
    IF S = {} THEN {<<>>}
    ELSE UNION {{<<x>> \o q : q \in Perms(S \ {x})} : x \in S}

\* a small site: up to MaxPages of these pages, next to files that are never audited
PgA         == Append(root_dir, <<"a", ".html">>)
PgOrphanage == Append(root_dir, <<"Orphan", "age", ".html">>)
PgBlogIndex == root_dir \o << <<"blog">>, IndexName >>

PageUniverse == {SiteIndex, PgA, PgOrphanage, PgBlogIndex}

OtherFiles ==
    << Append(root_dir, <<"404", ".html">>),
       Append(root_dir, <<"google", "site", ".html">>),
       Append(root_dir, <<"style", ".css">>),
       root_dir \o << <<"node_modules">>, <<"pkg", ".html">> >> >>

\* os.walk is top-down: the files of a directory are yielded together, before
\* those of the directories below it; the order inside a directory is arbitrary
WalkOrders(pages) ==
    {w \in Perms(pages) :
        \A i, j \in 1..Len(w) :
            /\ (dirname(w[i]) \in Ancestors(dirname(w[j])) => i < j)
            /\ (i < j /\ dirname(w[i]) = dirname(w[j])
                    => \A k \in i..j : dirname(w[k]) = dirname(w[i]))}

ExtA == <<"https://", "ext.example", "/", "x">>
ExtB == <<"http://", "other.example">>

Anchor(href, rel) == [href |-> href, rel |-> rel]

Anchors ==
    { Anchor(<<"/", "a">>, {}),
      Anchor(<<"index", ".html">>, {}),
      Anchor(<<"/", "blog", "/", "missing-post">>, {}),
      Anchor(BaseUrl \o <<"/", "a", ".html">>, {}),
      Anchor(ExtA, {}),
      Anchor(BaseUrl \o <<"/", "cdn-cgi", "/", "..", "/", "a", ".html">>, {}),
      Anchor(ExtB, {"nofollow"}),
      Anchor(<<"/", "go", "/", "offer">>, {}) }

SmallContents ==
    {Unreadable}
        \cup {Page(h, sc, <<>>) : h \in 0..2, sc \in BOOLEAN}
        \cup {Page(1, TRUE, <<a>>) : a \in Anchors}

\* a large site: LargePages pages p1.html, p2.html, ... in the root, each linking
\* to the next one by its clean URL.  The pages of the first half have no <h1>,
\* the last three have either no <h1> or no schema, the ones in between lack
\* nothing.  The first page also links to the third, and the first two hold a
\* fully protected external link.
NumTok(i) == <<"1", "2", "3", "4", "5", "6", "7", "8", "9", "10", "11", "12">>[i]

LargePage(i) == Append(root_dir, <<"p", NumTok(i), ".html">>)

\* the external URLs of a page with many outbound links
PoolUrls == 11

PoolUrl(i) == <<"https://", "pool.example", "/", NumTok(i)>>

PoolUrlSet == {PoolUrl(i) : i \in 1..PoolUrls}

LargeSite == [i \in 1..LargePages |-> LargePage(i)]

LargeAnchors(i) ==
    <<Anchor(<<"/", "p", NumTok((i % LargePages) + 1)>>, {})>>
        \o (IF i = 1 THEN <<Anchor(<<"/", "p", NumTok(3)>>, {}), Anchor(ExtA, Range(Protections))>>
            ELSE IF i = 2 THEN <<Anchor(ExtB, Range(Protections))>>
            ELSE <<>>)

LargeContents(i) ==
    IF 2 * i < LargePages THEN {Page(0, TRUE, LargeAnchors(i))}
    ELSE IF i > LargePages - 3
    THEN {Page(0, TRUE, LargeAnchors(i)), Page(1, FALSE, LargeAnchors(i))}
    ELSE {Page(1, TRUE, LargeAnchors(i))}

\* what open(file_path).read() and the parser can give for a page
PageContents(f) ==
    IF \E i \in 1..LargePages : f = LargePage(i)
    THEN LargeContents(CHOOSE i \in 1..LargePages : f = LargePage(i))
    ELSE SmallContents

FsOf(files) ==
    /\ fsFiles = files
    /\ fsDirs = {root_dir} \cup UNION {Ancestors(f) : f \in files \cup {root_dir}}

InitSmall ==
    \E pages \in SUBSET PageUniverse :
        /\ Cardinality(pages) <= MaxPages
        /\ FsOf(pages \cup Range(OtherFiles))
        /\ \E w \in WalkOrders(pages) : fsWalk = OtherFiles \o w
        \* AutoConfig._load_config: canonical / og:url of the root page, if there
        /\ base_url \in (IF SiteIndex \in pages THEN {None, BaseUrl} ELSE {None})

InitLarge ==
    /\ FsOf(Range(LargeSite))
    /\ fsWalk = LargeSite
    /\ base_url = None

Init ==
    /\ InitSmall \/ InitLarge
    /\ WellFormedFS(fsFiles, fsDirs)
    /\ Constructed
    /\ pc = "scan"
    /\ rsrc = None /\ rhref = None /\ rres = None
    /\ twin = <<>>

-----------------------------------------------------------------------------
(* Auditor.run and the methods it calls *)

\* the directories os.walk does not descend into: dirs[:] is filtered with
\* is_ignored_path(os.path.join(root, d))
Pruned(f) ==
    \E n \in (Len(root_dir) + 1)..(Len(f) - 1) : is_ignored_path(SubSeq(f, 1, n))

Audited(f) ==
    /\ ~Pruned(f)
    /\ EndsWith(basename(f), <<".html">>)
    /\ ~is_ignored_file(basename(f))

\* Auditor.scan_files
ScanFiles ==
    /\ pc = "scan"
    /\ files_to_audit' = SelectSeq(fsWalk, Audited)
    /\ pc' = "inspect"
    /\ UNCHANGED <<fsVars, resVars, twin, internal_links_graph, external_links, score, issues,
                   processed_files_count, dead_links, orphan_pages, top_pages, futures, deductions,
                   soup>>

Current == Ctx(score, issues, deductions, internal_links_graph, dead_links, external_links)

Store(c) ==
    /\ score' = c.score
    /\ issues' = c.issues
    /\ deductions' = c.deductions
    /\ internal_links_graph' = c.graph
    /\ dead_links' = c.dead
    /\ external_links' = c.ext

\* the loop of run() left by the exception of a page that cannot be read
CheckFile_Raises ==
    /\ pc = "inspect"
    /\ processed_files_count < Len(files_to_audit)
    /\ LET file_path == files_to_audit[processed_files_count + 1]
       IN  \E content \in PageContents(file_path) :
              /\ Store(check_file(Current, file_path, content))
              /\ soup' = content
              /\ pc' = IF content.readable THEN pc ELSE "raised"
    /\ processed_files_count' = processed_files_count + 1
    /\ UNCHANGED <<fsVars, resVars, twin, files_to_audit, orphan_pages, top_pages, futures>>

\* one iteration of the loop of run(): check_file and the count
CheckFile ==
    /\ pc = "inspect"
    /\ processed_files_count < Len(files_to_audit)
    /\ LET file_path == files_to_audit[processed_files_count + 1]
       IN  \E content \in PageContents(file_path) :
              /\ Store(check_file(Current, file_path, content))
              /\ soup' = content
    /\ processed_files_count' = processed_files_count + 1
    /\ UNCHANGED <<fsVars, resVars, twin, files_to_audit, orphan_pages, top_pages, futures, pc>>

MsgOrphan(rel) == <<"Orphan", " Page (No incoming links): ">> \o PathStr(rel) \o <<" (-5 pts)">>

\* the orphan test without the index.html exemption
IsOrphan_NoIndexSkip(f, graph) ==
    /\ f \notin Keys(graph)
    /\ ~is_ignored_file(basename(f))

\* the test analyze_structure applies to each discovered file
IsOrphan(f, graph) ==
    /\ f \notin Keys(graph)
    /\ ~(basename(f) = IndexName \/ is_ignored_file(basename(f)))
    /\ f # SiteIndex

TopN == 10

\* sorted(items, key=lambda x: len(x[1]), reverse=True): a stable sort, so entries
\* with the same count keep the order the dict holds them in
\* an entry put in front of the entries with the same count
RECURSIVE InsertByCount_TiesFirst(_, _)
InsertByCount_TiesFirst(sorted, e) ==
    IF sorted = <<>> THEN <<e>>
    ELSE IF Len(Head(sorted).sources) > Len(e.sources)
    THEN <<Head(sorted)>> \o InsertByCount_TiesFirst(Tail(sorted), e)
    ELSE <<e>> \o sorted

RECURSIVE InsertByCount(_, _)
InsertByCount(sorted, e) ==
    IF sorted = <<>> THEN <<e>>
    ELSE IF Len(Head(sorted).sources) >= Len(e.sources)
    THEN <<Head(sorted)>> \o InsertByCount(Tail(sorted), e)
    ELSE <<e>> \o sorted

RECURSIVE SortFrom(_, _)
SortFrom(items, sorted) ==
    IF items = <<>> THEN sorted
    ELSE SortFrom(Tail(items), InsertByCount(sorted, Head(items)))

sorted_pages(graph) == SortFrom(graph, <<>>)

\* the lines printed for sorted_pages[:10]
TopLines(graph) ==
    LET sp == sorted_pages(graph)
    IN  [i \in 1..(IF Len(sp) < TopN THEN Len(sp) ELSE TopN) |->
            [path |-> sp[i].target, links |-> Len(sp[i].sources)]]

RECURSIVE LogOrphans(_, _)
LogOrphans(c, orphans) ==
    IF orphans = <<>> THEN c
    ELSE LogOrphans(log(c, "WARN", MsgOrphan(relpath(Head(orphans)))), Tail(orphans))

\* Auditor.analyze_structure: all_files_set is a set, iterated in an arbitrary order
AnalyzeStructure ==
    /\ pc = "inspect"
    /\ processed_files_count = Len(files_to_audit)
    /\ \E order \in Perms({f \in Range(files_to_audit) : IsOrphan(f, internal_links_graph)}) :
          /\ Store(LogOrphans(Current, order))
          /\ orphan_pages' = orphan_pages \o [i \in 1..Len(order) |-> relpath(order[i])]
    /\ top_pages' = TopLines(internal_links_graph)
    /\ pc' = "external"
    /\ UNCHANGED <<fsVars, resVars, twin, files_to_audit, processed_files_count, futures, soup>>

-----------------------------------------------------------------------------
(* Auditor.check_external_links *)

max_workers == 10

\* what requests.head can do for a URL: answer with a status, or raise
StatusCodes == {200, 404}
Raised      == {"Timeout", "ConnectionError", "Exception"}

Answered(code) == [raised |-> None, status |-> code]
Raising(e)     == [raised |-> e, status |-> 0]

Outcomes == {Answered(code) : code \in StatusCodes} \cup {Raising(e) : e \in Raised}

StatusTok(code) == IF code = 200 THEN "200" ELSE "404"

ErrorText(e) ==
    IF e = "Timeout" THEN <<"Timeout (Network Limit?)">>
    ELSE IF e = "ConnectionError" THEN <<"Connection Error (Network Limit?)">>
    ELSE <<"str(e)">>

\* the value check_url returns: None, or the tuple (url, error, should_deduct)
ReturnedNone == [none |-> TRUE]

ProbeResult(url, error, should_deduct) ==
    [none |-> FALSE, url |-> url, error |-> error, should_deduct |-> should_deduct]

\* the nested check_url(url), given what the HEAD request did
check_url(url, outcome) ==
    IF outcome.raised = None
    THEN (IF outcome.status >= 400
          THEN ProbeResult(url, <<"Status ", StatusTok(outcome.status)>>, TRUE)
          ELSE ReturnedNone)
    ELSE ProbeResult(url, ErrorText(outcome.raised), FALSE)

MsgBroken(url, error) ==
    <<"Broken External Link: ">> \o url \o <<" (">> \o error \o <<") (-5 pts)">>
MsgUnreachable(url, error) ==
    <<"External Link Unreachable: ">> \o url \o <<" (">> \o error
        \o <<") - Skipped deduction (Likely Network Issue)">>

\* executor.submit for every URL of the set, in the order the set is iterated
SubmitAll ==
    /\ pc = "external"
    /\ \E q \in Perms(external_links) :
          futures' = Futures(q, {}, {}, {}, <<>>)
    /\ pc' = "collect"
    /\ UNCHANGED <<fsVars, resVars, twin, files_to_audit, internal_links_graph, external_links,
                   score, issues, processed_files_count, dead_links, orphan_pages,
                   top_pages, deductions, soup>>

\* what the server of a URL can do: the pool URLs always answer 200
OutcomesFor(url) == IF url \in PoolUrlSet THEN {Answered(200)} ELSE Outcomes

\* a work item taken although every worker is busy
StartProbe_NoLimit ==
    /\ pc = "collect"
    /\ futures.queue # <<>>
    /\ futures' = [futures EXCEPT !.queue = Tail(@),
                                   !.running = @ \cup {Head(futures.queue)},
                                   !.sent = Append(@, Head(futures.queue))]
    /\ UNCHANGED <<fsVars, resVars, twin, files_to_audit, internal_links_graph, external_links,
                   score, issues, processed_files_count, dead_links, orphan_pages,
                   top_pages, deductions, soup, pc>>

\* a free worker thread takes the next work item and sends the request
StartProbe ==
    /\ pc = "collect"
    /\ futures.queue # <<>>
    /\ Cardinality(futures.running) < max_workers
    /\ futures' = [futures EXCEPT !.queue = Tail(@),
                                   !.running = @ \cup {Head(futures.queue)},
                                   !.sent = Append(@, Head(futures.queue))]
    /\ UNCHANGED <<fsVars, resVars, twin, files_to_audit, internal_links_graph, external_links,
                   score, issues, processed_files_count, dead_links, orphan_pages,
                   top_pages, deductions, soup, pc>>

\* a request that raised is put back into the queue
FinishProbe_Retry ==
    /\ pc = "collect"
    /\ \E url \in futures.running :
       \E outcome \in OutcomesFor(url) :
          futures' = IF outcome.raised # None
                     THEN [futures EXCEPT !.running = @ \ {url}, !.queue = Append(@, url)]
                     ELSE [futures EXCEPT
                              !.running = @ \ {url},
                              !.done = @ \cup {[url |-> url, result |-> check_url(url, outcome)]}]
    /\ UNCHANGED <<fsVars, resVars, twin, files_to_audit, internal_links_graph, external_links,
                   score, issues, processed_files_count, dead_links, orphan_pages,
                   top_pages, deductions, soup, pc>>

\* check_url returns in its worker thread: the future is done
FinishProbe ==
    /\ pc = "collect"
    /\ \E url \in futures.running :
       \E outcome \in OutcomesFor(url) :
          futures' = [futures EXCEPT
                         !.running = @ \ {url},
                         !.done = @ \cup {[url |-> url, result |-> check_url(url, outcome)]}]
    /\ UNCHANGED <<fsVars, resVars, twin, files_to_audit, internal_links_graph, external_links,
                   score, issues, processed_files_count, dead_links, orphan_pages,
                   top_pages, deductions, soup, pc>>

\* the body of the as_completed loop for one result
Applied(c, result) ==
    IF result.none THEN c
    ELSE IF result.should_deduct
    THEN Deduct5(log(c, "ERROR", MsgBroken(result.url, result.error)))
    ELSE log(c, "WARN", MsgUnreachable(result.url, result.error))

\* the result of a yielded future applied two times
Collect_Twice ==
    /\ pc = "collect"
    /\ \E f \in futures.done :
          /\ Store(Applied(Applied(Current, f.result), f.result))
          /\ futures' = [futures EXCEPT !.done = @ \ {f}, !.yielded = @ \cup {f}]
    /\ UNCHANGED <<fsVars, resVars, twin, files_to_audit, processed_files_count, orphan_pages,
                   top_pages, soup, pc>>

\* as_completed yields a finished future; the main thread applies its result
Collect ==
    /\ pc = "collect"
    /\ \E f \in futures.done :
          /\ Store(Applied(Current, f.result))
          /\ futures' = [futures EXCEPT !.done = @ \ {f}, !.yielded = @ \cup {f}]
    /\ UNCHANGED <<fsVars, resVars, twin, files_to_audit, processed_files_count, orphan_pages,
                   top_pages, soup, pc>>

\* the report without the clamp
FinalScore_NoClamp(s) == s

\* self.score = max(0, self.score)
FinalScore(s) == Max(0, s)

\* the Final Report of run(), reached when every future has been collected
FinalReport ==
    /\ pc = "collect"
    /\ futures.queue = <<>> /\ futures.running = {} /\ futures.done = {}
    /\ score' = FinalScore(score)
    /\ pc' = "done"
    /\ UNCHANGED <<fsVars, resVars, twin, files_to_audit, internal_links_graph, external_links,
                   issues, processed_files_count, dead_links, orphan_pages, top_pages,
                   futures, deductions, soup>>

Next ==
    \/ ScanFiles
    \/ CheckFile
    \/ AnalyzeStructure
    \/ SubmitAll
    \/ StartProbe
    \/ FinishProbe
    \/ Collect
    \/ FinalReport

Spec == Init /\ [][Next]_vars

\* the runs over the small sites
InitSmallSite ==
    /\ InitSmall
    /\ WellFormedFS(fsFiles, fsDirs)
    /\ Constructed
    /\ pc = "scan"
    /\ rsrc = None /\ rhref = None /\ rres = None
    /\ twin = <<>>

\* run() is sequential code on a scheduled process and the pool threads run:
\* a step that can be taken is taken
FairSpec == InitSmallSite /\ [][Next]_vars /\ WF_vars(Next)

-----------------------------------------------------------------------------
(* Two runs over the same tree, the same page contents and the same probe
   outcomes: the steps of run() taken by both, each run with its own order of
   iterating all_files_set and the URL set and of completing the probes *)

Run(c, o) == [ctx |-> c, orphan_pages |-> o]

FreshRun == Run(Ctx(100, <<>>, <<>>, <<>>, <<>>, {}), <<>>)

InitTwin ==
    /\ InitSmall
    /\ WellFormedFS(fsFiles, fsDirs)
    /\ Constructed
    /\ pc = "scan"
    /\ rsrc = None /\ rhref = None /\ rres = None
    /\ twin = <<FreshRun, FreshRun>>

\* both runs read the same page
TwinCheckFile ==
    /\ pc = "inspect"
    /\ processed_files_count < Len(files_to_audit)
    /\ LET file_path == files_to_audit[processed_files_count + 1]
       IN  \E content \in PageContents(file_path) :
              /\ twin' = [i \in 1..2 |->
                            [twin[i] EXCEPT !.ctx = check_file(@, file_path, content)]]
              /\ soup' = content
    /\ processed_files_count' = processed_files_count + 1
    /\ UNCHANGED <<fsVars, resVars, files_to_audit, internal_links_graph, external_links,
                   score, issues, dead_links, orphan_pages, top_pages, futures,
                   deductions, pc>>

OrphansOf(r) == {f \in Range(files_to_audit) : IsOrphan(f, r.ctx.graph)}

AnalyzedRun(r, order) ==
    Run(LogOrphans(r.ctx, order),
        r.orphan_pages \o [i \in 1..Len(order) |-> relpath(order[i])])

\* analyze_structure in both runs, each iterating its set in its own order
TwinAnalyze ==
    /\ pc = "inspect"
    /\ processed_files_count = Len(files_to_audit)
    /\ \E o1 \in Perms(OrphansOf(twin[1])), o2 \in Perms(OrphansOf(twin[2])) :
          twin' = <<AnalyzedRun(twin[1], o1), AnalyzedRun(twin[2], o2)>>
    /\ pc' = "external"
    /\ UNCHANGED <<fsVars, resVars, runVars>>

RECURSIVE ApplyInOrder(_, _, _)
ApplyInOrder(c, order, outcomes) ==
    IF order = <<>> THEN c
    ELSE ApplyInOrder(Applied(c, check_url(Head(order), outcomes[Head(order)])),
                      Tail(order), outcomes)

\* check_external_links in both runs: every URL has the same outcome in both,
\* the results are collected in an order of each run's own
TwinExternal ==
    /\ pc = "external"
    /\ \E outcomes \in [twin[1].ctx.ext \cup twin[2].ctx.ext -> Outcomes] :
          \E o1 \in Perms(twin[1].ctx.ext), o2 \in Perms(twin[2].ctx.ext) :
             twin' = <<[twin[1] EXCEPT !.ctx = ApplyInOrder(@, o1, outcomes)],
                       [twin[2] EXCEPT !.ctx = ApplyInOrder(@, o2, outcomes)]>>
    /\ pc' = "collect"
    /\ UNCHANGED <<fsVars, resVars, runVars>>

\* the Final Report of both runs
TwinReport ==
    /\ pc = "collect"
    /\ twin' = [i \in 1..2 |-> [twin[i] EXCEPT !.ctx.score = FinalScore(@)]]
    /\ pc' = "done"
    /\ UNCHANGED <<fsVars, resVars, runVars>>

NextTwin ==
    \/ ScanFiles
    \/ TwinCheckFile
    \/ TwinAnalyze
    \/ TwinExternal
    \/ TwinReport

SpecTwin == InitTwin /\ [][NextTwin]_vars

-----------------------------------------------------------------------------
(* The external phase of a run over a root page with PoolUrls fully protected
   external links: the state in which check_external_links has submitted its
   futures *)

PoolPage ==
    Page(1, TRUE, [i \in 1..PoolUrls |-> Anchor(PoolUrl(i), Range(Protections))])

InitPool ==
    /\ FsOf({SiteIndex})
    /\ fsWalk = <<SiteIndex>>
    /\ base_url = None
    /\ files_to_audit = <<SiteIndex>>
    /\ processed_files_count = 1
    /\ soup = PoolPage
    /\ LET c == check_file(FreshRun.ctx, SiteIndex, PoolPage)
       IN  /\ score = c.score
           /\ issues = c.issues
           /\ deductions = c.deductions
           /\ internal_links_graph = c.graph
           /\ dead_links = c.dead
           /\ external_links = c.ext
    /\ orphan_pages = <<>>
    /\ top_pages = <<>>
    /\ futures = Futures([i \in 1..PoolUrls |-> PoolUrl(i)], {}, {}, {}, <<>>)
    /\ pc = "collect"
    /\ rsrc = None /\ rhref = None /\ rres = None
    /\ twin = <<>>

NextPool ==
    \/ StartProbe
    \/ FinishProbe
    \/ Collect
    \/ FinalReport

SpecPool == InitPool /\ [][NextPool]_vars

-----------------------------------------------------------------------------
(* Reading the ledger *)

Amounts == [i \in 1..Len(deductions) |-> deductions[i].amount]

\* the score updates made for finding i: by log, and by an explicit deduction after it
EntriesOf(i) == {k \in 1..Len(deductions) : deductions[k].finding = i}

RECURSIVE SumOver(_)
SumOver(K) ==
    IF K = {} THEN 0
    ELSE LET k == CHOOSE x \in K : TRUE
         IN  (deductions[k].before - deductions[k].after) + SumOver(K \ {k})

\* what finding i took from the score
Charged(i) == SumOver(EntriesOf(i))

IsOrphanFinding(is)      == is.type = "WARN" /\ StartsWith(is.message, <<"Orphan", " Page (No incoming links): ">>)
IsUnreachableFinding(is) == is.type = "WARN" /\ StartsWith(is.message, <<"External Link Unreachable: ">>)
IsBrokenFinding(is)      == is.type = "ERROR" /\ StartsWith(is.message, <<"Broken External Link: ">>)

Analyzed == pc \in {"external", "collect", "done"}

-----------------------------------------------------------------------------
(* C1 *)

\* C1: when the run has reported, the score is max(0, 100 - D) for D the sum of
\* the amounts deducted for the findings of the run, it lies in 0..100, every
\* finding has its deduction and no deducted amount is negative.
C1_FinalScore ==
    pc = "done" =>
        /\ score = Max(0, 100 - SumSeq(Amounts))
        /\ score \in 0..100
        /\ \A i \in 1..Len(issues) : EntriesOf(i) # {}
        /\ \A k \in 1..Len(deductions) : deductions[k].amount >= 0

\* a run whose deductions exceed 100 has reported
C1_Witness ==
    /\ pc = "done"
    /\ SumSeq(Amounts) > 100
    /\ score = 0

-----------------------------------------------------------------------------
(* C2 *)

\* C2: no update of the score made while findings are emitted raises it, also
\* when the score is already below zero.
C2_ScoreNeverIncreases ==
    \A k \in 1..Len(deductions) : deductions[k].after <= deductions[k].before

-----------------------------------------------------------------------------
(* C3 *)

\* C3: while findings are emitted every update subtracts the whole amount it
\* names, with no clamp, so the running score may fall below zero; the only
\* clamp is the one of the final report.
C3_ClampOnlyAtReport ==
    \A k \in 1..Len(deductions) :
        deductions[k].after = deductions[k].before - deductions[k].amount

-----------------------------------------------------------------------------
(* C4 *)

\* C4: the WARN finding of a probe that timed out, could not connect or raised
\* leaves the score unchanged.
C4_UnreachableCostsNothing ==
    \A i \in 1..Len(issues) :
        IsUnreachableFinding(issues[i]) => Charged(i) = 0

-----------------------------------------------------------------------------
(* C5 *)

\* C5: the ERROR finding of a probe answered with a status >= 400 takes exactly
\* 5 from the score in total, and there is one such finding per URL.
C5_BrokenCostsFive ==
    /\ \A i \in 1..Len(issues) : IsBrokenFinding(issues[i]) => Charged(i) = 5
    /\ \A i, j \in 1..Len(issues) :
          (IsBrokenFinding(issues[i]) /\ issues[i] = issues[j]) => i = j

-----------------------------------------------------------------------------
(* C6 *)

\* C6: a WARN finding takes exactly 5 from the score when orphan analysis
\* emitted it and exactly 2 otherwise, whatever path or href its message
\* holds, as long as the score before it is above the clamp.
C6_WarnWeights ==
    \A i \in 1..Len(issues) :
        (issues[i].type = "WARN" /\ \A k \in EntriesOf(i) : deductions[k].before >= 5)
            => Charged(i) = (IF IsOrphanFinding(issues[i]) THEN 5 ELSE 2)

-----------------------------------------------------------------------------
(* C7 *)

\* C7: after analyze_structure, a discovered page that is a key of the link
\* graph is not in the orphan list, and no file named index.html or matching
\* an ignore-filename rule is in it, with or without inbound edges.
C7_LinkedAndIndexNotOrphans ==
    Analyzed =>
        \A f \in Range(files_to_audit) \cup fsFiles :
            (\/ f \in Keys(internal_links_graph)
             \/ basename(f) = IndexName
             \/ is_ignored_file(basename(f)))
                => relpath(f) \notin Range(orphan_pages)

\* analysis has run on a site with an index page nobody links to, next to an orphan
C7_Witness ==
    /\ Analyzed
    /\ PgBlogIndex \in Range(files_to_audit)
    /\ PgBlogIndex \notin Keys(internal_links_graph)
    /\ orphan_pages = << relpath(PgA) >>

-----------------------------------------------------------------------------
(* C8 *)

OnlyOwnLinks(f) ==
    \A i \in 1..Len(Sources(internal_links_graph, f)) : Sources(internal_links_graph, f)[i] = f

\* C8: after analyze_structure, every discovered page with no inbound link from
\* another page (its own links to itself not counted) that is neither an index
\* page nor ignore-listed is in the orphan list, with one orphan WARN finding.
C8_NoOtherInboundIsOrphan ==
    Analyzed =>
        \A f \in Range(files_to_audit) :
            (OnlyOwnLinks(f) /\ basename(f) # IndexName /\ ~is_ignored_file(basename(f)))
                => /\ relpath(f) \in Range(orphan_pages)
                   /\ Cardinality({i \in 1..Len(issues) :
                          issues[i] = Issue("WARN", MsgOrphan(relpath(f)))}) = 1

-----------------------------------------------------------------------------
(* C10 *)

NoTier(file_path, h) ==
    LET t == Tiers(AnchoredPath(file_path, h))
    IN  \A i \in 1..Len(t) : ~t[i].hit

\* check_file has just inspected a page whose only content of interest is one
\* anchor with a root-relative, extension-less href that no tier resolves
InspectedDeadAnchor ==
    /\ pc = "inspect"
    /\ processed_files_count' = processed_files_count + 1
    /\ soup'.readable
    /\ soup'.h1 = 1 /\ soup'.schema
    /\ Len(soup'.anchors) = 1
    /\ StartsWith(soup'.anchors[1].href, <<"/">>)
    /\ ~EndsWith(soup'.anchors[1].href, <<".html">>)
    /\ NoTier(files_to_audit[processed_files_count + 1], soup'.anchors[1].href)

DeadAnchorEffect ==
    LET f == files_to_audit[processed_files_count + 1]
        h == soup'.anchors[1].href
    IN  /\ issues' = Append(issues, Issue("ERROR", MsgDead(relpath(f), h)))
        /\ dead_links' = Append(dead_links, h)
        /\ internal_links_graph' = internal_links_graph
        /\ score' = score - 10

\* C10 as stated: every root-relative, extension-less href that no tier resolves
\* gives one ERROR 'dead link' naming it, one entry of the dead-link list, no
\* edge, and 10 off the score.
C10_DeadLinkAnyHref == [][InspectedDeadAnchor => DeadAnchorEffect]_vars

\* C10, amended: the same for every such href that matches no ignore-URL rule.
C10_DeadLink ==
    [][(InspectedDeadAnchor /\ ~is_ignored_url(soup'.anchors[1].href)) => DeadAnchorEffect]_vars

\* the page with the anchor /blog/missing-post has been inspected and the dead
\* link is the last finding
C10_Witness ==
    /\ pc = "inspect"
    /\ processed_files_count > 0
    /\ soup = Page(1, TRUE, <<Anchor(<<"/", "blog", "/", "missing-post">>, {})>>)
    /\ dead_links # <<>>
    /\ dead_links[Len(dead_links)] = <<"/", "blog", "/", "missing-post">>
    /\ issues[Len(issues)].type = "ERROR"

-----------------------------------------------------------------------------
(* C11: absolute links to the site itself *)

\* what follows the base URL in an href that starts with it
Remainder(h) == SubSeq(h, Len(base_url) + 1, Len(h))

\* check_file has just inspected a page whose only content of interest is one
\* anchor with an absolute href under the configured base URL, and the rest of
\* the href, read from the root, resolves to an existing file
InspectedAbsInternal ==
    /\ pc = "inspect"
    /\ processed_files_count' = processed_files_count + 1
    /\ soup'.readable
    /\ soup'.h1 = 1 /\ soup'.schema
    /\ Len(soup'.anchors) = 1
    /\ base_url # None
    /\ StartsWith(soup'.anchors[1].href, <<"https://">>)
    /\ StartsWith(soup'.anchors[1].href, base_url)
    /\ StartsWith(Remainder(soup'.anchors[1].href), <<"/">>)
    /\ resolve_local_path(files_to_audit[processed_files_count + 1],
                          Remainder(soup'.anchors[1].href)).exists

AbsInternalEffect ==
    LET f == files_to_audit[processed_files_count + 1]
        h == soup'.anchors[1].href
        r == resolve_local_path(f, Remainder(h))
    IN  /\ issues' = Append(issues, Issue("WARN", MsgAbsInternal(relpath(f), h)))
        /\ internal_links_graph' = AddEdge(internal_links_graph, r.path, f)
        /\ dead_links' = dead_links
        /\ external_links' = external_links

\* C11 as stated: every absolute href under the base URL whose remainder resolves
\* gives one WARN about the absolute form and an edge from the page to the
\* resolved file, no dead-link ERROR, and no entry of the external-URL set.
C11_AbsInternalAnyHref == [][InspectedAbsInternal => AbsInternalEffect]_vars

\* C11, amended: the same for every such href that matches no ignore-URL rule.
C11_AbsInternal ==
    [][(InspectedAbsInternal /\ ~is_ignored_url(soup'.anchors[1].href)) => AbsInternalEffect]_vars

\* the page with the anchor https://site.example/a.html has been inspected: the
\* WARN is the last finding and a.html has an inbound edge
C11_Witness ==
    /\ pc = "inspect"
    /\ processed_files_count > 0
    /\ base_url # None
    /\ soup = Page(1, TRUE, <<Anchor(BaseUrl \o <<"/", "a", ".html">>, {})>>)
    /\ issues # <<>>
    /\ issues[Len(issues)].type = "WARN"
    /\ PgA \in Keys(internal_links_graph)
    /\ dead_links = <<>>

-----------------------------------------------------------------------------
(* C12: the order in which the probes complete *)

IsExternalFinding(is) == IsUnreachableFinding(is) \/ IsBrokenFinding(is)

ExternalFindings == {i \in 1..Len(issues) : IsExternalFinding(issues[i])}

\* the findings and the score the external phase started from
PreIssues == SelectSeq(issues, LAMBDA is : ~IsExternalFinding(is))

PreScore ==
    LET K == {k \in 1..Len(deductions) : deductions[k].finding \in ExternalFindings}
    IN  IF K # {} THEN deductions[CHOOSE k \in K : \A j \in K : k <= j].before
        ELSE IF deductions # <<>> THEN deductions[Len(deductions)].after
        ELSE 100

\* the results applied one after the other in an order that depends on the set
\* of results only
RECURSIVE ApplyAll(_, _)
ApplyAll(c, F) ==
    IF F = {} THEN c
    ELSE LET f == CHOOSE x \in F : TRUE
         IN  ApplyAll(Applied(c, f.result), F \ {f})

Canonical ==
    ApplyAll(Ctx(PreScore, PreIssues, <<>>, internal_links_graph, dead_links, external_links),
             futures.yielded)

Count(seq, x) == Cardinality({i \in 1..Len(seq) : seq[i] = x})

\* the finding a probe result stands for
FindingOf(result) ==
    IF result.should_deduct
    THEN Issue("ERROR", MsgBroken(result.url, result.error))
    ELSE Issue("WARN", MsgUnreachable(result.url, result.error))

Reported == {f \in futures.yielded : ~f.result.none}

\* C12: while results are collected, every URL has at most one result, every
\* yielded result that is not None has exactly one finding and its score
\* updates (two for a broken link, one for an unreachable one) and there is no
\* other external finding; when the run has reported, every URL has been
\* yielded once, and the score and the findings are those of applying the same
\* results in one fixed order.
C12_CompletionOrder ==
    /\ pc \in {"collect", "done"} =>
          /\ \A url \in external_links :
                Cardinality({f \in futures.done \cup futures.yielded : f.url = url}) <= 1
          /\ Cardinality(ExternalFindings) = Cardinality(Reported)
          /\ \A f \in Reported : Count(issues, FindingOf(f.result)) = 1
          /\ \A i \in ExternalFindings :
                Cardinality(EntriesOf(i)) = IF IsBrokenFinding(issues[i]) THEN 2 ELSE 1
    /\ pc = "done" =>
          /\ {f.url : f \in futures.yielded} = external_links
          /\ score = Max(0, Canonical.score)
          /\ Len(issues) = Len(Canonical.issues)
          /\ \A m \in Range(issues) : Count(issues, m) = Count(Canonical.issues, m)

\* a run has reported in which two probes gave a broken and an unreachable link
\* and the request sent first was collected last
C12_Witness ==
    /\ pc = "done"
    /\ Len(futures.sent) = 2
    /\ Cardinality(Reported) = 2
    /\ \E f \in Reported : f.result.should_deduct
    /\ \E f \in Reported : ~f.result.should_deduct
    /\ \E f \in Reported :
          /\ f.url = futures.sent[1]
          /\ issues[Len(issues)] = FindingOf(f.result)

-----------------------------------------------------------------------------
(* C13: one probe per URL, and the report after the last of them *)

IsProtectionFinding(is) ==
    is.type = "WARN" /\ " missing protection: " \in Range(is.message)

\* C13: in the external phase every request sent is for a URL of the external
\* set, no URL has two requests, and a URL is in exactly one of: waiting, in
\* flight, finished; when the run has reported, every URL of the set has had its
\* one request and has a result, and nothing waits or is in flight.
C13_ProbedOnce ==
    /\ pc \in {"collect", "done"} =>
          /\ Range(futures.sent) \subseteq external_links
          /\ \A i, j \in 1..Len(futures.sent) : futures.sent[i] = futures.sent[j] => i = j
          /\ \A url \in external_links :
                Count(futures.queue, url)
                    + Cardinality({u \in futures.running : u = url})
                    + Cardinality({f \in futures.done \cup futures.yielded : f.url = url}) = 1
          /\ \A url \in external_links :
                Count(futures.sent, url) = IF url \in Range(futures.queue) THEN 0 ELSE 1
    /\ pc = "done" =>
          /\ Len(futures.sent) = Cardinality(external_links)
          /\ futures.queue = <<>> /\ futures.running = {} /\ futures.done = {}
          /\ {f.url : f \in futures.yielded} = external_links

\* a run has reported in which two pages link to the same external URL and its
\* one request timed out
C13_Witness ==
    /\ pc = "done"
    /\ external_links = {ExtA}
    /\ Cardinality({i \in 1..Len(issues) : IsProtectionFinding(issues[i])}) = 2
    /\ futures.sent = <<ExtA>>
    /\ \E f \in Reported : f.result.error = ErrorText("Timeout")

-----------------------------------------------------------------------------
(* C14: termination *)

\* C14: every run reaches the final report, whatever the pages hold and
\* whatever the probes return.
C14_Terminates == <>(pc = "done")

\* a run has reported over a site without a root page, with a page that could
\* not be read, an orphan, and a probe that raised
C14_Witness ==
    /\ pc = "done"
    /\ SiteIndex \notin fsFiles
    /\ processed_files_count > 0
    /\ ~soup.readable
    /\ orphan_pages # <<>>
    /\ \E f \in Reported : f.result.error = ErrorText("Exception")

-----------------------------------------------------------------------------
(* C15: a page that cannot be read or parsed *)

\* check_file has just failed on a page
InspectedUnreadable ==
    /\ pc = "inspect"
    /\ processed_files_count' = processed_files_count + 1
    /\ ~soup'.readable

\* C15: a page whose processing fails leaves findings, score updates, score,
\* graph, dead-link list and external-URL set as they were, and the loop goes
\* on: structure analysis starts only when every page of the file list has
\* been handed to check_file.
C15_FailureIsolated ==
    /\ [][InspectedUnreadable =>
            /\ issues' = issues
            /\ deductions' = deductions
            /\ score' = score
            /\ internal_links_graph' = internal_links_graph
            /\ dead_links' = dead_links
            /\ external_links' = external_links
            /\ pc' = "inspect"]_vars
    /\ [](Analyzed => processed_files_count = Len(files_to_audit))

\* the first of two pages has just failed: nothing is recorded, the score is
\* untouched and the second page is next
C15_Witness ==
    /\ pc = "inspect"
    /\ Len(files_to_audit) = 2
    /\ processed_files_count = 1
    /\ ~soup.readable
    /\ issues = <<>> /\ deductions = <<>> /\ score = 100
    /\ internal_links_graph = <<>> /\ external_links = {}

-----------------------------------------------------------------------------
(* C16: the same audit twice *)

BeforeExternal(is) == SelectSeq(is, LAMBDA x : ~IsExternalFinding(x))

\* C16: when both runs have reported, they have the same score and the same
\* set of findings, and their findings of page inspection and orphan analysis
\* are in the same order.
C16_SameTwice ==
    pc = "done" =>
        /\ twin[1].ctx.score = twin[2].ctx.score
        /\ Range(twin[1].ctx.issues) = Range(twin[2].ctx.issues)
        /\ BeforeExternal(twin[1].ctx.issues) = BeforeExternal(twin[2].ctx.issues)

\* what the two runs do agree on: the score and the set of findings
C16_SameScoreAndSet ==
    pc = "done" =>
        /\ twin[1].ctx.score = twin[2].ctx.score
        /\ Range(twin[1].ctx.issues) = Range(twin[2].ctx.issues)

-----------------------------------------------------------------------------
(* C17: the order of the top pages *)

\* the place of a file in the discovery order, and the place of a target in the
\* order in which the targets received their first edge
DiscoveryPos(f) ==
    IF f \in Range(files_to_audit)
    THEN CHOOSE i \in 1..Len(files_to_audit) : files_to_audit[i] = f
    ELSE Len(files_to_audit) + 1

FirstEdgePos(f) == CHOOSE i \in 1..Len(internal_links_graph) : internal_links_graph[i].target = f

\* the listing holds the targets of the graph with their inbound counts, by
\* count descending, cut after TopN lines
TopByCount ==
    /\ Len(top_pages) = (IF Len(internal_links_graph) < TopN
                         THEN Len(internal_links_graph) ELSE TopN)
    /\ \A i \in 1..Len(top_pages) :
          /\ top_pages[i].path \in Keys(internal_links_graph)
          /\ top_pages[i].links = Len(Sources(internal_links_graph, top_pages[i].path))
    /\ \A i, j \in 1..Len(top_pages) : i < j =>
          /\ top_pages[i].path # top_pages[j].path
          /\ top_pages[i].links >= top_pages[j].links
    /\ \A t \in Keys(internal_links_graph) :
          (\A i \in 1..Len(top_pages) : top_pages[i].path # t)
              => \A i \in 1..Len(top_pages) :
                    top_pages[i].links >= Len(Sources(internal_links_graph, t))

\* C17 as stated: the listing is by count descending and pages with the same
\* count are in discovery order.
C17_TiesInDiscoveryOrder ==
    Analyzed =>
        /\ TopByCount
        /\ \A i, j \in 1..Len(top_pages) :
              (i < j /\ top_pages[i].links = top_pages[j].links)
                  => DiscoveryPos(top_pages[i].path) < DiscoveryPos(top_pages[j].path)

\* C17, amended: pages with the same count are in the order in which they
\* received their first edge.
C17_TiesInFirstEdgeOrder ==
    Analyzed =>
        /\ TopByCount
        /\ \A i, j \in 1..Len(top_pages) :
              (i < j /\ top_pages[i].links = top_pages[j].links)
                  => FirstEdgePos(top_pages[i].path) < FirstEdgePos(top_pages[j].path)

\* the listing has been printed for a graph with more than TopN targets, one of
\* them with two inbound edges and in front of targets that received their
\* first edge before it
C17_Witness ==
    /\ Analyzed
    /\ Len(internal_links_graph) > TopN
    /\ Len(top_pages) = TopN
    /\ top_pages[1].links = 2
    /\ FirstEdgePos(top_pages[1].path) = 2
    /\ top_pages[2].links = top_pages[3].links

-----------------------------------------------------------------------------
(* C18: the <h1> check *)

\* check_file has just inspected a page with schema and without anchors, so
\* that only the <h1> check can have emitted anything
InspectedHeadings ==
    /\ pc = "inspect"
    /\ processed_files_count' = processed_files_count + 1
    /\ soup'.readable
    /\ soup'.schema
    /\ soup'.anchors = <<>>

HeadingEffect ==
    LET rel == relpath(files_to_audit[processed_files_count + 1])
        n   == Len(issues) + 1
    IN  IF soup'.h1 = 0
        THEN /\ issues' = Append(issues, Issue("ERROR", MsgMissingH1(rel)))
             /\ deductions' = deductions \o <<Entry(10, score, score - 10, n),
                                              Entry(5, score - 10, score - 15, n)>>
             /\ score' = score - 15
        ELSE IF soup'.h1 > 1
        THEN /\ issues' = Append(issues, Issue("WARN", MsgMultipleH1(rel)))
             /\ score' = score - 2
        ELSE /\ issues' = issues
             /\ deductions' = deductions
             /\ score' = score

\* C18: a page without <h1> gives one ERROR and takes 10 and then 5 from the
\* score; a page with several <h1> gives one WARN and takes 2; a page with one
\* <h1> gives no finding and takes nothing.
C18_HeadingDeductions == [][InspectedHeadings => HeadingEffect]_vars

-----------------------------------------------------------------------------
(* C19: the worker pool *)

\* C19: at most max_workers requests are in flight at any time, and a request
\* is sent only when fewer than max_workers are in flight.
C19_PoolBound ==
    /\ [](Cardinality(futures.running) <= max_workers)
    /\ [][Len(futures.sent') > Len(futures.sent)
            => Cardinality(futures.running) < max_workers]_vars

\* every worker is busy and a URL waits
C19_Witness ==
    /\ pc = "collect"
    /\ Cardinality(futures.running) = max_workers
    /\ futures.queue # <<>>
    /\ Cardinality(external_links) > max_workers

-----------------------------------------------------------------------------
(* C20: the fourth tier of resolve_local_path *)

\* resolve_local_path with its last isfile(index_path) test removed
resolve_local_path_NoTier4(current_file_path, link_href) ==
    LET potential_path == AnchoredPath(current_file_path, link_href)
        index_path == Append(potential_path, IndexName)
        html_path  == PlusHtml(potential_path)
    IN  IF isfile(potential_path) THEN Res(potential_path, TRUE)
        ELSE IF isdir(potential_path) /\ isfile(index_path) THEN Res(index_path, TRUE)
        ELSE IF isfile(html_path) THEN Res(html_path, TRUE)
        ELSE Res(potential_path, FALSE)

\* C20: on a file system in which every file lies in existing directories, the
\* fourth tier matches only where the second tier matches, with the same file,
\* and resolve_local_path returns what it returns without the fourth tier.
C20_Tier4NeverDecides ==
    pc = "resolved" =>
        LET t == Tiers(AnchoredPath(rsrc, rhref))
        IN  /\ WellFormedFS(fsFiles, fsDirs)
            /\ t[4].hit => (t[2].hit /\ t[2].file = t[4].file)
            /\ rres = resolve_local_path_NoTier4(rsrc, rhref)

\* a path has been resolved to the index page of a directory: the first tier
\* did not match, the fourth would have, and a '.html' file of the same name is
\* there too
C20_Witness ==
    /\ pc = "resolved"
    /\ LET t == Tiers(AnchoredPath(rsrc, rhref))
       IN  ~t[1].hit /\ t[3].hit /\ t[4].hit /\ rres = Res(t[4].file, TRUE)

=============================================================================
